---- MODULE Spec2Model ----
(***************************************************************************)
(* Incremental synchronisation core of the Confluence data pipeline:       *)
(*   - the change-detection ledger   (src/utils/state_manager.py)          *)
(*   - the export orchestrator       (src/master_script.py)                *)
(*   - the page tree resolver        (src/api_client/confluence_client.py) *)
(***************************************************************************)
EXTENDS Integers, Sequences, FiniteSets, TLC

(***************************************************************************)
(* Bounds of the model.                                                    *)
(***************************************************************************)
MaxEdits == 1            \* remote edits (version increments) in one behaviour
MaxRuns == 2             \* invocations of main() in one behaviour
MaxChildren == 2         \* declared children per page
MaxListing == 3          \* items in one remote listing (over all its pages)

(***************************************************************************)
(* The remote site seen by the orchestrator: three pages in two spaces.    *)
(***************************************************************************)
Ids == {"A", "B", "C"}
Spaces == {"DOCS", "OPS"}
SpaceOf(id) == IF id = "C" THEN "OPS" ELSE "DOCS"

VARIABLES
    remote,         \* remote[id]: current version number of page id
    state,          \* StateManager.state: the in-memory ledger (page id -> entry)
    store,          \* the state file on disk
    pc,             \* "idle" (no process), "run" (main is in a page loop),
                    \* "returned" (main has returned), "crashed" (the process died)
    args,           \* the command line of the current / last invocation
    pages,          \* the candidate pages main still has to hand to process_page
    force_process,  \* main passes force_process=True in the current loop
    last,           \* what the last call of process_page did and returned
    exit_code,      \* return value of main(), 0 until it returns
    runs,           \* number of invocations started
    exported,       \* ids generate_html was called for in the current run
    committed,      \* committed[id]: version process_page last exported with
                    \* success in the current run (0: none)
    run_ok,         \* no HTML export of the current run has failed so far
    repeat,         \* the current run follows a run with the same arguments
                    \* that returned with every HTML export succeeding
    prev_ok,        \* the last run returned with every HTML export succeeding
    changed,        \* ids of the pages edited remotely since the previous run
    stats,          \* the run statistics main() keeps
    call,           \* the resolver entry point called, with its arguments
    rs,             \* the resolver call under way (a machine, see below)
    site,           \* the remote page graph as far as the gateway has shown it
    fetches,        \* fetches[id]: number of get_page_by_id(id) calls of this resolver call
    listings,       \* number of listing requests of this resolver call
    log,            \* the listing requests of this resolver call, in order
    failures,       \* ids whose get_page_by_id raised during this resolver call
    rq,             \* the _make_request call under way (see the gateway below)
    verified_recently,  \* time() - self.last_verification_time < 300
    mn              \* one run of main() in any of its four modes (see below)

ledger_vars == <<remote, state, store, pc, args, pages, force_process, last,
                 exit_code, runs, exported, committed, run_ok, repeat, prev_ok,
                 changed, stats>>
resolver_vars == <<call, rs, site, fetches, listings, log, failures>>
gateway_vars == <<rq, verified_recently>>
modes_vars == <<mn>>
vars == <<ledger_vars, resolver_vars, gateway_vars, modes_vars>>

(***************************************************************************)
(* Pages and ledger entries.                                               *)
(***************************************************************************)
Page(id, version, children) ==
    [id |-> id, version |-> version, space |-> SpaceOf(id), children |-> children]

EmptyLedger == [id \in {} |-> 0]

MissingFile == [kind |-> "missing", data |-> EmptyLedger]
CorruptFile == [kind |-> "corrupt", data |-> EmptyLedger]
JsonFile(mapping) == [kind |-> "json", data |-> mapping]

\* the variant that returns whatever the file holds, read error or not
load_state_unguarded(file, rd) ==
    IF file.kind = "missing" \/ file.kind = "corrupt" THEN EmptyLedger
    ELSE file.data

(***************************************************************************)
(* StateManager.load_state: a missing file, invalid JSON and any other     *)
(* read error (rd = "error") all yield the empty mapping.                  *)
(***************************************************************************)
load_state(file, rd) ==
    IF file.kind = "missing" THEN EmptyLedger
    ELSE IF rd = "error" THEN EmptyLedger
    ELSE IF file.kind = "corrupt" THEN EmptyLedger
    ELSE file.data

(***************************************************************************)
(* StateManager.save_state: open(state_file, "w") truncates the file and   *)
(* json.dump rewrites it; every exception is caught and only logged.       *)
(*   io = "ok"           the whole mapping is written                      *)
(*   io = "open_failed"  open() raised: the file is left as it was         *)
(*   io = "write_failed" the file was truncated and the dump raised        *)
(***************************************************************************)
save_state(mapping, file, io) ==
    CASE io = "ok" -> JsonFile(mapping)
      [] io = "open_failed" -> file
      [] OTHER -> CorruptFile

(***************************************************************************)
(* StateManager.should_process_page                                        *)
(***************************************************************************)
\* the variant in which a matching force_space bypasses the version check
should_process_page_forced(st, page, force_space) ==
    IF force_space /= "none" /\ page.space = force_space
    THEN TRUE
    ELSE page.id \notin DOMAIN st \/ st[page.id].version < page.version

\* the variant that compares with > in the force_space branch
should_process_page_gt(st, page, force_space) ==
    IF force_space /= "none" /\ page.space = force_space
    THEN ~(page.id \in DOMAIN st /\ st[page.id].version > page.version)
    ELSE page.id \notin DOMAIN st \/ st[page.id].version < page.version

should_process_page(st, page, force_space) ==
    IF force_space /= "none" /\ page.space = force_space
    THEN IF page.id \in DOMAIN st /\ st[page.id].version >= page.version
         THEN FALSE
         ELSE TRUE
    ELSE IF page.id \notin DOMAIN st \/ st[page.id].version < page.version
         THEN TRUE
         ELSE FALSE

(***************************************************************************)
(* StateManager.get_page_state: "none" stands for None.                    *)
(***************************************************************************)
get_page_state(st, page_id) ==
    IF page_id \in DOMAIN st THEN "entry" ELSE "none"

\* the variant that records a page only when a PDF was produced for it
update_page_state_needs_pdf(st, file, page, output_paths, io) ==
    IF "pdf" \in output_paths
    THEN LET entry == [space_key |-> page.space,
                       version |-> page.version,
                       output_paths |-> output_paths]
             st2 == [id \in DOMAIN st \cup {page.id} |->
                         IF id = page.id THEN entry ELSE st[id]]
         IN  [state |-> st2, store |-> save_state(st2, file, io)]
    ELSE [state |-> st, store |-> file]

\* the variant that replaces the mapping by the new entry instead of upserting
update_page_state_replace(st, file, page, output_paths, io) ==
    LET entry == [space_key |-> page.space,
                  version |-> page.version,
                  output_paths |-> output_paths]
        st2 == [id \in {page.id} |-> entry]
    IN  [state |-> st2, store |-> save_state(st2, file, io)]

(***************************************************************************)
(* StateManager.update_page_state: upsert, then save_state.  Returns the   *)
(* new in-memory mapping and the new file.                                 *)
(***************************************************************************)
update_page_state(st, file, page, output_paths, io) ==
    LET entry == [space_key |-> page.space,
                  version |-> page.version,
                  output_paths |-> output_paths]
        st2 == [id \in DOMAIN st \cup {page.id} |->
                    IF id = page.id THEN entry ELSE st[id]]
    IN  [state |-> st2, store |-> save_state(st2, file, io)]

(***************************************************************************)
(* The page tree resolver (ConfluenceClient).  A resolver call is run as a *)
(* machine m that stops at every gateway fetch:                            *)
(*   m.stack          the call frames, the running function last           *)
(*   m.processed_ids  the processed-id set, shared by reference            *)
(*   m.status         "fetch_page": get_page_by_id(m.want) is due          *)
(*                    "fetch_listing": a paginated listing request is due  *)
(*                    "returned": the call returned m.result               *)
(*                    "raised": an exception left the call                 *)
(* A page is [id, version, space, children]; children is the list of ids   *)
(* of page["children"]["page"]["results"].                                 *)
(***************************************************************************)
PageLimit == 2           \* stands for limit = 100 of every paginated listing

NoPage == [id |-> "none", version |-> 0, space |-> "none", children |-> <<>>]

Frame(fn, arg, recursive) ==
    [fn |-> fn, arg |-> arg, recursive |-> recursive, page |-> NoPage,
     phase |-> "parent", idx |-> 1, cidx |-> 1, start |-> 0,
     all_pages |-> <<>>, child_pages |-> <<>>, queue |-> <<>>,
     all_spaces |-> <<>>, spaces |-> <<>>, updated_pages |-> <<>>]

Machine(frame, status, want) ==
    [stack |-> <<frame>>, processed_ids |-> {}, status |-> status,
     want |-> want, result |-> <<>>]

Top(m) == m.stack[Len(m.stack)]
SetTop(m, f) == [m EXCEPT !.stack[Len(m.stack)] = f]
Push(m, f) == [m EXCEPT !.stack = Append(@, f)]
Pop(m) == [m EXCEPT !.stack = SubSeq(@, 1, Len(@) - 1)]
WantPage(m, id) == [m EXCEPT !.status = "fetch_page", !.want = id]
WantListing(m) == [m EXCEPT !.status = "fetch_listing", !.want = "listing"]

(***************************************************************************)
(* The test `child["id"] not in processed_ids` that guards every child     *)
(* fetch, and the early return `parent_page["id"] in processed_ids` of     *)
(* _get_child_pages_recursive.                                             *)
(***************************************************************************)
\* the variant without the processed-id test
never_processed(id, processed_ids) == FALSE

already_processed(id, processed_ids) == id \in processed_ids

(***************************************************************************)
(* Return pops the running frame and resumes its caller; Continue runs the *)
(* local code of the running frame up to the next fetch or return.         *)
(***************************************************************************)
RECURSIVE Continue(_), Return(_, _)

Return(m, value) ==
    IF Len(m.stack) = 1
    THEN [m EXCEPT !.stack = <<>>, !.status = "returned", !.result = value]
    ELSE LET m1 == Pop(m)
             g == Top(m1)
         IN  IF g.fn = "get_updated_pages"
             THEN \* get_updated_pages: spaces = self.get_all_spaces()
                  IF value = <<>>
                  THEN Return(m1, g.updated_pages)
                  ELSE WantListing(SetTop(m1, [g EXCEPT !.spaces = value,
                                                         !.phase = "per_space",
                                                         !.idx = 1, !.start = 0]))
             ELSE IF g.fn = "get_child_pages"
             THEN \* get_child_pages: all_pages.extend(grandchild_pages)
                  Continue(SetTop(m1, [g EXCEPT !.all_pages = @ \o value,
                                                !.idx = @ + 1]))
             ELSE \* _get_child_pages_recursive: child_pages.extend(grandchildren)
                  Continue(SetTop(m1, [g EXCEPT !.child_pages = @ \o value,
                                                !.idx = @ + 1]))

Continue(m) ==
    LET f == Top(m) IN
    CASE f.fn = "get_child_pages" /\ f.phase = "children" ->
            \* for child in parent_page["children"]["page"]["results"]
            IF f.idx > Len(f.page.children)
            THEN LET f1 == [f EXCEPT !.all_pages = @ \o f.child_pages] IN
                 IF f.recursive /\ f.child_pages /= <<>>
                 THEN Continue(SetTop(m, [f1 EXCEPT !.phase = "grandchildren",
                                                    !.idx = 1]))
                 ELSE Return(SetTop(m, f1), f1.all_pages)
            ELSE IF already_processed(f.page.children[f.idx], m.processed_ids)
            THEN Continue(SetTop(m, [f EXCEPT !.idx = @ + 1]))
            ELSE WantPage(m, f.page.children[f.idx])
      [] f.fn = "get_child_pages" /\ f.phase = "grandchildren" ->
            \* for child_page in child_pages: _get_child_pages_recursive(...)
            IF f.idx > Len(f.child_pages)
            THEN Return(m, f.all_pages)
            ELSE WantPage(Push(m, Frame("_get_child_pages_recursive",
                                        f.child_pages[f.idx].id, TRUE)),
                          f.child_pages[f.idx].id)
      [] f.fn = "_get_child_pages_recursive" /\ f.phase = "children" ->
            IF f.idx > Len(f.page.children)
            THEN Return(m, f.child_pages)
            ELSE IF already_processed(f.page.children[f.idx], m.processed_ids)
            THEN Continue(SetTop(m, [f EXCEPT !.idx = @ + 1]))
            ELSE WantPage(m, f.page.children[f.idx])
      [] f.fn = "get_pages_in_space" /\ f.phase = "expand" ->
            \* for page in pages_to_process: for child in its children
            IF f.idx > Len(f.queue)
            THEN Return(m, f.all_pages)
            ELSE IF f.cidx > Len(f.queue[f.idx].children)
            THEN Continue(SetTop(m, [f EXCEPT !.idx = @ + 1, !.cidx = 1]))
            ELSE IF already_processed(f.queue[f.idx].children[f.cidx], m.processed_ids)
            THEN Continue(SetTop(m, [f EXCEPT !.cidx = @ + 1]))
            ELSE WantPage(m, f.queue[f.idx].children[f.cidx])
      [] OTHER -> m

(***************************************************************************)
(* The code that follows a successful get_page_by_id in the running frame. *)
(***************************************************************************)
FetchedPage(m, page) ==
    LET f == Top(m) IN
    CASE f.fn = "get_child_pages" /\ f.phase = "parent" ->
            LET f1 == [f EXCEPT !.page = page, !.all_pages = <<page>>,
                                !.phase = "children", !.idx = 1]
                m1 == [SetTop(m, f1) EXCEPT !.processed_ids = {page.id}]
            IN  IF page.children = <<>>
                THEN Return(m1, f1.all_pages)
                ELSE Continue(m1)
      [] f.fn = "get_child_pages" /\ f.phase = "children" ->
            Continue([SetTop(m, [f EXCEPT !.child_pages = Append(@, page),
                                          !.idx = @ + 1])
                        EXCEPT !.processed_ids = @ \cup {page.id}])
      [] f.fn = "_get_child_pages_recursive" /\ f.phase = "parent" ->
            IF already_processed(page.id, m.processed_ids)
            THEN Return(m, <<>>)
            ELSE LET m1 == [SetTop(m, [f EXCEPT !.page = page,
                                                !.phase = "children", !.idx = 1])
                              EXCEPT !.processed_ids = @ \cup {page.id}]
                 IN  IF page.children = <<>>
                     THEN Return(m1, <<>>)
                     ELSE Continue(m1)
      [] f.fn = "_get_child_pages_recursive" /\ f.phase = "children" ->
            \* the child is appended, then its own subtree is asked for
            WantPage(Push([SetTop(m, [f EXCEPT !.child_pages = Append(@, page)])
                             EXCEPT !.processed_ids = @ \cup {page.id}],
                          Frame("_get_child_pages_recursive", page.id, TRUE)),
                     page.id)
      [] f.fn = "get_pages_in_space" /\ f.phase = "expand" ->
            Continue([SetTop(m, [f EXCEPT !.all_pages = Append(@, page),
                                          !.cidx = @ + 1])
                        EXCEPT !.processed_ids = @ \cup {page.id}])
      [] OTHER -> m

(***************************************************************************)
(* get_pages_in_space, listing loop: append the pages of one response      *)
(* whose id is not yet in processed_ids.  Returns [all_pages, processed].  *)
(***************************************************************************)
RECURSIVE AddNewPages(_, _, _)
AddNewPages(all_pages, processed_ids, results) ==
    IF results = <<>>
    THEN [all_pages |-> all_pages, processed_ids |-> processed_ids]
    ELSE IF already_processed(Head(results).id, processed_ids)
    THEN AddNewPages(all_pages, processed_ids, Tail(results))
    ELSE AddNewPages(Append(all_pages, Head(results)),
                     processed_ids \cup {Head(results).id}, Tail(results))

\* the variant of start += limit that asks for the same offset again
same_start(start) == start

(***************************************************************************)
(* start += limit at the end of one round of a pagination loop.            *)
(***************************************************************************)
next_start(start) == start + PageLimit

\* the variant that expands the listing whatever the recursive flag says
AfterSpaceListing_always_expands(m) ==
    LET f == Top(m) IN
    IF f.all_pages /= <<>>
    THEN Continue(SetTop(m, [f EXCEPT !.phase = "expand", !.queue = f.all_pages,
                                      !.idx = 1, !.cidx = 1]))
    ELSE Return(m, f.all_pages)

(***************************************************************************)
(* get_pages_in_space after its listing loop.                              *)
(***************************************************************************)
AfterSpaceListing(m) ==
    LET f == Top(m) IN
    IF f.recursive /\ f.all_pages /= <<>>
    THEN Continue(SetTop(m, [f EXCEPT !.phase = "expand", !.queue = f.all_pages,
                                      !.idx = 1, !.cidx = 1]))
    ELSE Return(m, f.all_pages)

\* the variant that queries the spaces whatever the global query delivered
AfterGlobalQuery_always_falls_back(m) ==
    LET f == Top(m) IN
    WantListing(Push(SetTop(m, [f EXCEPT !.phase = "spaces"]),
                     [Frame("get_all_spaces", "none", FALSE)
                         EXCEPT !.phase = "listing"]))

(***************************************************************************)
(* get_updated_pages after the global query loop, and at the end of the    *)
(* pagination loop of one space.                                           *)
(***************************************************************************)
AfterGlobalQuery(m) ==
    LET f == Top(m) IN
    IF f.updated_pages = <<>>
    THEN WantListing(Push(SetTop(m, [f EXCEPT !.phase = "spaces"]),
                          [Frame("get_all_spaces", "none", FALSE)
                              EXCEPT !.phase = "listing"]))
    ELSE Return(m, f.updated_pages)

NextSpace(m) ==
    LET f == Top(m) IN
    IF f.idx + 1 > Len(f.spaces)
    THEN Return(m, f.updated_pages)
    ELSE WantListing(SetTop(m, [f EXCEPT !.idx = @ + 1, !.start = 0]))

(***************************************************************************)
(* The code that follows a successful _make_request of a pagination loop;  *)
(* results is response["results"].                                         *)
(***************************************************************************)
FetchedListing(m, results) ==
    LET f == Top(m) IN
    CASE f.fn = "get_pages_in_space" ->
            IF results = <<>>
            THEN AfterSpaceListing(m)
            ELSE LET a == AddNewPages(f.all_pages, m.processed_ids, results)
                     m1 == [SetTop(m, [f EXCEPT !.all_pages = a.all_pages])
                               EXCEPT !.processed_ids = a.processed_ids]
                 IN  IF Len(results) < PageLimit
                     THEN AfterSpaceListing(m1)
                     ELSE WantListing(SetTop(m1, [Top(m1) EXCEPT
                                                    !.start = next_start(@)]))
      [] f.fn = "get_all_spaces" ->
            IF results = <<>>
            THEN Return(m, f.all_spaces)
            ELSE LET f1 == [f EXCEPT !.all_spaces = @ \o results] IN
                 IF Len(results) < PageLimit
                 THEN Return(SetTop(m, f1), f1.all_spaces)
                 ELSE WantListing(SetTop(m, [f1 EXCEPT !.start = next_start(@)]))
      [] f.fn = "get_updated_pages" /\ f.phase = "global" ->
            IF results = <<>>
            THEN AfterGlobalQuery(m)
            ELSE LET f1 == [f EXCEPT !.updated_pages = @ \o results] IN
                 IF Len(results) < PageLimit
                 THEN AfterGlobalQuery(SetTop(m, f1))
                 ELSE WantListing(SetTop(m, [f1 EXCEPT !.start = next_start(@)]))
      [] f.fn = "get_updated_pages" /\ f.phase = "per_space" ->
            IF results = <<>>
            THEN NextSpace(m)
            ELSE LET f1 == [f EXCEPT !.updated_pages = @ \o results] IN
                 IF Len(results) < PageLimit
                 THEN NextSpace(SetTop(m, f1))
                 ELSE WantListing(SetTop(m, [f1 EXCEPT !.start = next_start(@)]))
      [] OTHER -> m

\* the variant without handlers: every failed request leaves the call as an
\* exception
FetchFailed_raises(m) == [m EXCEPT !.stack = <<>>, !.status = "raised"]

\* the variant whose handler of the global query keeps the pages received
\* so far instead of resetting the list
FetchFailed_keeps_pages(m) ==
    LET f == Top(m) IN
    CASE f.fn = "get_updated_pages" /\ f.phase = "global" ->
            AfterGlobalQuery(m)
      [] f.fn = "get_updated_pages" /\ f.phase = "per_space" ->
            NextSpace(m)
      [] f.fn = "get_all_spaces" /\ Len(m.stack) > 1 ->
            Return(Pop(m), Top(Pop(m)).updated_pages)
      [] OTHER -> [m EXCEPT !.stack = <<>>, !.status = "raised"]

(***************************************************************************)
(* A gateway call that raised (_make_request gave up).  get_updated_pages  *)
(* catches it around each of its requests and around the whole fallback;   *)
(* no other resolver function has a handler.                               *)
(***************************************************************************)
FetchFailed(m) ==
    LET f == Top(m) IN
    CASE f.fn = "get_updated_pages" /\ f.phase = "global" ->
            \* updated_pages = []; break
            AfterGlobalQuery(SetTop(m, [f EXCEPT !.updated_pages = <<>>]))
      [] f.fn = "get_updated_pages" /\ f.phase = "per_space" ->
            NextSpace(m)
      [] f.fn = "get_all_spaces" /\ Len(m.stack) > 1 ->
            \* the outer handler of get_updated_pages, then return updated_pages
            Return(Pop(m), Top(Pop(m)).updated_pages)
      [] OTHER -> [m EXCEPT !.stack = <<>>, !.status = "raised"]

(***************************************************************************)
(* The resolver entry points: the state in which each waits for its first *)
(* gateway call.                                                           *)
(***************************************************************************)
get_child_pages(page_id, recursive) ==
    Machine(Frame("get_child_pages", page_id, recursive), "fetch_page", page_id)

get_pages_in_space(space_key, recursive) ==
    Machine([Frame("get_pages_in_space", space_key, recursive)
                EXCEPT !.phase = "listing"], "fetch_listing", "listing")

get_updated_pages(days) ==
    Machine([Frame("get_updated_pages", days, FALSE)
                EXCEPT !.phase = "global"], "fetch_listing", "listing")

get_all_spaces ==
    Machine([Frame("get_all_spaces", "none", FALSE)
                EXCEPT !.phase = "listing"], "fetch_listing", "listing")

(***************************************************************************)
(* The resolver against a remote site.  The site is any finite page graph: *)
(* a page's child list is fixed the first time the gateway delivers the    *)
(* page; a listing holds at most MaxListing items and is served in         *)
(* responses of at most PageLimit items.                                   *)
(***************************************************************************)
SeqsUpTo(S, n) == UNION {[1..k -> S] : k \in 0..n}
Range(seq) == {seq[i] : i \in 1..Len(seq)}
NoDuplicates(seq) == \A i, j \in 1..Len(seq) : seq[i] = seq[j] => i = j
PageIds(seq) == [i \in 1..Len(seq) |-> seq[i].id]

\* the declared children of a page: up to MaxChildren distinct ids, in any
\* order, the page itself and its ancestors included
ChildLists == {cs \in SeqsUpTo(Ids, MaxChildren) : NoDuplicates(cs)}
SpaceIds(space_key) == {id \in Ids : SpaceOf(id) = space_key}

\* one request of a pagination loop as the gateway saw it: the loop it
\* belongs to, the space asked for, the "start" parameter, and what came
\* back (the ids or keys of response["results"], or an exception)
Request(f, items, ok) ==
    [fn |-> f.fn,
     space |-> IF f.fn = "get_pages_in_space" THEN f.arg
               ELSE IF f.fn = "get_updated_pages" /\ f.phase = "per_space"
               THEN f.spaces[f.idx]
               ELSE "none",
     start |-> f.start, items |-> items, ok |-> ok]

IdleMachine == [stack |-> <<>>, processed_ids |-> {}, status |-> "idle",
                want |-> "none", result |-> <<>>]
NoFetches == [id \in Ids |-> 0]
NoResolverCall == [fn |-> "none", arg |-> "none", recursive |-> FALSE]

InitResolver ==
    /\ call = NoResolverCall
    /\ rs = IdleMachine
    /\ site = [id \in {} |-> <<>>]
    /\ fetches = NoFetches
    /\ listings = 0
    /\ log = <<>>
    /\ failures = {}

Call_get_child_pages ==
    /\ rs.status = "idle"
    /\ \E page_id \in Ids, recursive \in BOOLEAN :
           /\ call' = [fn |-> "get_child_pages", arg |-> page_id,
                       recursive |-> recursive]
           /\ rs' = get_child_pages(page_id, recursive)
    /\ UNCHANGED <<site, fetches, listings, log, failures>>
    /\ UNCHANGED ledger_vars
    /\ UNCHANGED gateway_vars
    /\ UNCHANGED modes_vars

Call_get_pages_in_space ==
    /\ rs.status = "idle"
    /\ \E space_key \in Spaces, recursive \in BOOLEAN :
           /\ call' = [fn |-> "get_pages_in_space", arg |-> space_key,
                       recursive |-> recursive]
           /\ rs' = get_pages_in_space(space_key, recursive)
    /\ UNCHANGED <<site, fetches, listings, log, failures>>
    /\ UNCHANGED ledger_vars
    /\ UNCHANGED gateway_vars
    /\ UNCHANGED modes_vars

Call_get_updated_pages ==
    /\ rs.status = "idle"
    /\ call' = [fn |-> "get_updated_pages", arg |-> "none", recursive |-> FALSE]
    /\ rs' = get_updated_pages(1)
    /\ UNCHANGED <<site, fetches, listings, log, failures>>
    /\ UNCHANGED ledger_vars
    /\ UNCHANGED gateway_vars
    /\ UNCHANGED modes_vars

(***************************************************************************)
(* get_page_by_id(rs.want) returns the page ...                            *)
(***************************************************************************)
GatewayPage ==
    /\ rs.status = "fetch_page"
    /\ \E cs \in ChildLists :
          /\ rs.want \in DOMAIN site => cs = site[rs.want]
          /\ site' = [id \in DOMAIN site \cup {rs.want} |->
                         IF id = rs.want THEN cs ELSE site[id]]
          /\ rs' = FetchedPage(rs, Page(rs.want, 1, cs))
    /\ fetches' = [fetches EXCEPT ![rs.want] = @ + 1]
    /\ UNCHANGED <<call, listings, log, failures>>
    /\ UNCHANGED ledger_vars
    /\ UNCHANGED gateway_vars
    /\ UNCHANGED modes_vars

(***************************************************************************)
(* ... or raises, _make_request having used up its retries.                *)
(***************************************************************************)
GatewayPageFails ==
    /\ rs.status = "fetch_page"
    /\ rs' = FetchFailed(rs)
    /\ fetches' = [fetches EXCEPT ![rs.want] = @ + 1]
    /\ failures' = failures \cup {rs.want}
    /\ UNCHANGED <<call, site, listings, log>>
    /\ UNCHANGED ledger_vars
    /\ UNCHANGED gateway_vars
    /\ UNCHANGED modes_vars

(***************************************************************************)
(* One response of a paginated listing: n items, a listing holding at most *)
(* MaxListing items in all.                                                *)
(*   - get_all_spaces: space keys, each space once;                        *)
(*   - the content listing of a space: pages of that space with their      *)
(*     child lists;                                                        *)
(*   - the searches of get_updated_pages: pages (of the space asked for,   *)
(*     in a per-space query); their child lists are not read.              *)
(* One response holds a page once; a page may come again in a later        *)
(* response of the same listing, the remote content moving between two     *)
(* requests.                                                               *)
(***************************************************************************)
GatewayListing ==
    /\ rs.status = "fetch_listing"
    /\ LET f == Top(rs) IN
       \E n \in 0..PageLimit :
          /\ f.start + n <= MaxListing
          /\ CASE f.fn = "get_all_spaces" ->
                    /\ \E keys \in [1..n -> Spaces \ Range(f.all_spaces)] :
                          /\ NoDuplicates(keys)
                          /\ rs' = FetchedListing(rs, keys)
                          /\ log' = Append(log, Request(f, keys, TRUE))
                    /\ site' = site
               [] f.fn = "get_pages_in_space" ->
                    \E ids \in [1..n -> SpaceIds(f.arg)] :
                    \E shown \in [Range(ids) \ DOMAIN site -> ChildLists] :
                       /\ NoDuplicates(ids)
                       /\ LET children(id) == IF id \in DOMAIN site
                                           THEN site[id] ELSE shown[id]
                          IN  /\ site' = [id \in DOMAIN site \cup Range(ids) |->
                                             children(id)]
                              /\ rs' = FetchedListing(rs,
                                    [i \in 1..n |-> Page(ids[i], 1, children(ids[i]))])
                              /\ log' = Append(log, Request(f, ids, TRUE))
               [] OTHER ->
                    /\ \E ids \in [1..n -> IF f.phase = "per_space"
                                           THEN SpaceIds(f.spaces[f.idx])
                                           ELSE Ids] :
                          /\ NoDuplicates(ids)
                          /\ rs' = FetchedListing(rs,
                                    [i \in 1..n |-> Page(ids[i], 1, <<>>)])
                          /\ log' = Append(log, Request(f, ids, TRUE))
                    /\ site' = site
    /\ listings' = listings + 1
    /\ UNCHANGED <<call, fetches, failures>>
    /\ UNCHANGED ledger_vars
    /\ UNCHANGED gateway_vars
    /\ UNCHANGED modes_vars

GatewayListingFails ==
    /\ rs.status = "fetch_listing"
    /\ rs' = FetchFailed(rs)
    /\ listings' = listings + 1
    /\ log' = Append(log, Request(Top(rs), <<>>, FALSE))
    /\ failures' = failures \cup {"listing"}
    /\ UNCHANGED <<call, site, fetches>>
    /\ UNCHANGED ledger_vars
    /\ UNCHANGED gateway_vars
    /\ UNCHANGED modes_vars

NextResolver ==
    \/ Call_get_child_pages
    \/ Call_get_pages_in_space
    \/ Call_get_updated_pages
    \/ GatewayPage
    \/ GatewayPageFails
    \/ GatewayListing
    \/ GatewayListingFails

(***************************************************************************)
(* The gateway: ConfluenceClient._make_request.  A call is followed from   *)
(* one HTTP attempt to the next:                                           *)
(*   rq.status         "idle", "attempt" (session.get is due), "returned", *)
(*                     "raised"                                            *)
(*   rq.retry_count    the local retry_count                               *)
(*   rq.history        what each HTTP attempt of the call came back with   *)
(*   rq.result         the value returned (the payload of a response)      *)
(*   rq.error          the attempt whose exception left the call           *)
(*   rq.verifications  calls of _handle_manual_verification                *)
(*   rq.refreshes      calls of refresh_session                            *)
(* An attempt comes back as a response [code, challenge, payload], where   *)
(* challenge says that the body matches "Human Verification" / "captcha",  *)
(* or as an exception raised by session.get.                               *)
(***************************************************************************)
max_retries == 3         \* max_retries=3, the default of _make_request
MaxAttempts == 6         \* HTTP attempts followed in one call

StatusCodes == {200, 400, 401, 403, 404, 405, 429, 500}
ChallengeCodes == {200, 403}
Payloads == {"p1", "p2"}
SessionErrors == {"ConnectionError", "Timeout", "RequestException", "Exception"}

Response(code, challenge, payload) ==
    [code |-> code, challenge |-> challenge, exc |-> "none", payload |-> payload]
Raised(exc) ==
    [code |-> 0, challenge |-> FALSE, exc |-> exc, payload |-> "none"]
NoResponse == Raised("none")

IdleRequest == [status |-> "idle", retry_count |-> 0, history |-> <<>>,
                result |-> "none", error |-> NoResponse,
                verifications |-> 0, refreshes |-> 0]

\* while retry_count <= max_retries: the next attempt, or the exit of the
\* loop and the final raise Exception("Failed to make request after ...")
next_attempt(q) ==
    IF q.retry_count <= max_retries
    THEN [q EXCEPT !.status = "attempt"]
    ELSE [q EXCEPT !.status = "raised", !.error = Raised("MaxRetriesReached")]

\* the variant that allows one retry more
may_retry_once_more(retry_count) == retry_count <= max_retries

\* if retry_count < max_retries
may_retry(retry_count) == retry_count < max_retries

\* the variant that takes every error status for a server error
is_any_error(status_code) == 400 <= status_code

\* 500 <= status_code < 600
is_server_error(status_code) == 500 <= status_code /\ status_code < 600

\* retry_count += 1; continue
retry(q) == next_attempt([q EXCEPT !.retry_count = @ + 1])

\* raise: the exception of this attempt leaves the call
reraise(q, attempt) == [q EXCEPT !.status = "raised", !.error = attempt]

\* _handle_manual_verification: True at once when a verification was tried
\* in the last five minutes; otherwise the user is asked for cookies
\* (user = "imported": cookies pasted and imported; "skip", "import_failed").
\* Returns its result and the new value of verified_recently.
handle_manual_verification(recently, user) ==
    IF recently
    THEN [result |-> TRUE, verified_recently |-> TRUE]
    ELSE [result |-> (user = "imported"), verified_recently |-> TRUE]

\* the response check and the except clauses that follow one attempt
after_response(q, r, verified) ==
    IF r.challenge
    THEN \* signature found: manual verification, then continue or raise
         IF verified
         THEN next_attempt([q EXCEPT !.verifications = @ + 1])
         ELSE reraise([q EXCEPT !.verifications = @ + 1],
                      Raised("CaptchaNotResolved"))
    ELSE IF r.code = 200
    THEN \* raise_for_status() passes: return response.json()
         [q EXCEPT !.status = "returned", !.result = r.payload]
    ELSE \* except requests.exceptions.HTTPError
         IF r.code = 429 /\ may_retry(q.retry_count)
         THEN retry(q)
         ELSE IF is_server_error(r.code) /\ may_retry(q.retry_count)
         THEN retry(q)
         ELSE reraise(q, r)

after_exception(q, e) ==
    IF e.exc \in {"ConnectionError", "Timeout", "RequestException"}
    THEN IF may_retry(q.retry_count) THEN retry(q) ELSE reraise(q, e)
    ELSE \* except Exception: raise
         reraise(q, e)

InitGateway ==
    /\ rq = IdleRequest
    /\ verified_recently = FALSE

Call_make_request ==
    /\ rq.status = "idle"
    /\ rq' = next_attempt(rq)
    /\ UNCHANGED verified_recently
    /\ UNCHANGED ledger_vars
    /\ UNCHANGED resolver_vars
    /\ UNCHANGED modes_vars

\* session.get returns a response whose body carries no challenge
HttpResponse ==
    /\ rq.status = "attempt"
    /\ Len(rq.history) < MaxAttempts
    /\ \E code \in StatusCodes, payload \in Payloads :
          LET r == Response(code, FALSE, IF code = 200 THEN payload ELSE "none")
          IN  rq' = after_response([rq EXCEPT !.history = Append(@, r)], r, FALSE)
    /\ UNCHANGED verified_recently
    /\ UNCHANGED ledger_vars
    /\ UNCHANGED resolver_vars
    /\ UNCHANGED modes_vars

\* session.get returns a response whose text matches the signature
\* ("Human Verification" in response.text or "captcha" in
\* response.text.lower()): a challenge page (payload "none"), or, with status
\* 200, a JSON payload of the API in which the words occur
HttpChallenge ==
    /\ rq.status = "attempt"
    /\ Len(rq.history) < MaxAttempts
    /\ \E code \in ChallengeCodes, payload \in {"p1", "none"},
          user \in {"imported", "skip", "import_failed"} :
          LET r == Response(code, TRUE, IF code = 200 THEN payload ELSE "none")
              v == handle_manual_verification(verified_recently, user)
          IN  /\ rq' = after_response([rq EXCEPT !.history = Append(@, r)], r, v.result)
              /\ verified_recently' = v.verified_recently
    /\ UNCHANGED ledger_vars
    /\ UNCHANGED resolver_vars
    /\ UNCHANGED modes_vars

\* session.get raises
HttpException ==
    /\ rq.status = "attempt"
    /\ Len(rq.history) < MaxAttempts
    /\ \E exc \in SessionErrors :
          LET e == Raised(exc)
          IN  rq' = after_exception([rq EXCEPT !.history = Append(@, e)], e)
    /\ UNCHANGED verified_recently
    /\ UNCHANGED ledger_vars
    /\ UNCHANGED resolver_vars
    /\ UNCHANGED modes_vars

\* five minutes have passed since the last verification
VerificationExpires ==
    /\ verified_recently
    /\ verified_recently' = FALSE
    /\ UNCHANGED rq
    /\ UNCHANGED ledger_vars
    /\ UNCHANGED resolver_vars
    /\ UNCHANGED modes_vars

NextGateway ==
    \/ Call_make_request
    \/ HttpResponse
    \/ HttpChallenge
    \/ HttpException
    \/ VerificationExpires

(***************************************************************************)
(* The export orchestrator.                                                *)
(*                                                                         *)
(* process_page.  oc gives what the collaborators do in this call:         *)
(*   oc.html  generate_html returns a path / returns None / raises         *)
(*   oc.pdf   convert_file returns True / returns False / the PDF step     *)
(*            (mkdir, convert_file) raises                                 *)
(*   oc.save  what the write of the state file does (see save_state)       *)
(* Returns (processed, stats) and the ledger after the call.               *)
(***************************************************************************)
ZeroStats == [html_processed |-> 0, html_skipped |-> 0, html_failed |-> 0,
              pdf_processed |-> 0, pdf_skipped |-> 0, pdf_failed |-> 0]

Outcomes == [html : {"path", "none", "raise"},
             pdf : {"ok", "fail", "raise"},
             save : {"ok", "open_failed", "write_failed"}]

\* the variant that calls update_page_state before the export and reports
\* what generate_html did
process_page_commit_first(st, file, page, html_only, force_space, force_proc, oc) ==
    IF ~force_proc /\ ~should_process_page(st, page, force_space)
    THEN [processed |-> FALSE,
          stats |-> [ZeroStats EXCEPT !.html_skipped = 1, !.pdf_skipped = 1],
          state |-> st, store |-> file, html |-> "not_called",
          pdf |-> "not_called", content_type |-> "none"]
    ELSE LET u == update_page_state(st, file, page, {"html"}, oc.save) IN
         [processed |-> oc.html = "path",
          stats |-> IF oc.html = "path"
                    THEN [ZeroStats EXCEPT !.html_processed = 1, !.pdf_skipped = 1]
                    ELSE [ZeroStats EXCEPT !.html_failed = 1, !.pdf_skipped = 1],
          state |-> u.state, store |-> u.store, html |-> oc.html,
          pdf |-> "not_called", content_type |-> "new"]

\* the variant that calls update_page_state whatever generate_html did
process_page_commit_always(st, file, page, html_only, force_space, force_proc, oc) ==
    LET u == update_page_state(st, file, page, {"html"}, oc.save) IN
    [processed |-> TRUE, stats |-> [ZeroStats EXCEPT !.html_processed = 1],
     state |-> u.state, store |-> u.store,
     html |-> IF ~force_proc /\ ~should_process_page(st, page, force_space)
              THEN "not_called" ELSE oc.html,
     pdf |-> "not_called", content_type |-> "new"]

process_page(st, file, page, html_only, force_space, force_proc, oc) ==
    IF ~force_proc /\ ~should_process_page(st, page, force_space)
    THEN [processed |-> FALSE,
          stats |-> [ZeroStats EXCEPT !.html_skipped = 1, !.pdf_skipped = 1],
          state |-> st, store |-> file, html |-> "not_called",
          pdf |-> "not_called", content_type |-> "none"]
    ELSE
    LET content_type ==
            IF force_proc THEN "new"
            ELSE IF get_page_state(st, page.id) = "none" THEN "new" ELSE "updated"
        failed(page_stats, how, pdf) ==
            [processed |-> FALSE, stats |-> page_stats, state |-> st, store |-> file,
             html |-> how, pdf |-> pdf, content_type |-> content_type]
        html_done == [ZeroStats EXCEPT !.html_processed = 1]
    IN
    CASE oc.html = "raise" ->
            \* except Exception: html_failed += 1, pdf_failed += 1
            failed([ZeroStats EXCEPT !.html_failed = 1, !.pdf_failed = 1], "raise",
                   "not_called")
      [] oc.html = "none" ->
            \* if not html_path: html_failed += 1, pdf_skipped += 1
            failed([ZeroStats EXCEPT !.html_failed = 1, !.pdf_skipped = 1], "none",
                   "not_called")
      [] ~html_only /\ oc.pdf = "raise" ->
            \* the exception handler runs after html_processed was counted
            failed([html_done EXCEPT !.html_failed = 1, !.pdf_failed = 1], "path",
                   "raise")
      [] OTHER ->
            LET output_paths == IF ~html_only /\ oc.pdf = "ok"
                                THEN {"html", "pdf"} ELSE {"html"}
                page_stats ==
                         IF html_only THEN [html_done EXCEPT !.pdf_skipped = 1]
                         ELSE IF oc.pdf = "ok"
                         THEN [html_done EXCEPT !.pdf_processed = 1]
                         ELSE [html_done EXCEPT !.pdf_failed = 1]
                u == update_page_state(st, file, page, output_paths, oc.save)
            IN  [processed |-> TRUE, stats |-> page_stats, state |-> u.state,
                 store |-> u.store, html |-> "path",
                 pdf |-> IF html_only THEN "not_called" ELSE oc.pdf,
                 content_type |-> content_type]

(***************************************************************************)
(* The site main() runs against: page A has the child B, both in DOCS;     *)
(* page C is alone in OPS.  Resolve runs a resolver call to its end        *)
(* against this site, every gateway call succeeding.                       *)
(***************************************************************************)
SiteChildren(id) == IF id = "A" THEN <<"B">> ELSE <<>>
SiteSpacePages(space_key) == IF space_key = "DOCS" THEN <<"A", "B">> ELSE <<"C">>

SiteResponse(rem, f) ==
    LET ids == SiteSpacePages(f.arg)
        lo == f.start + 1
        hi == IF f.start + PageLimit < Len(ids) THEN f.start + PageLimit ELSE Len(ids)
    IN  [i \in 1..(IF hi >= lo THEN hi - lo + 1 ELSE 0) |->
            Page(ids[lo + i - 1], rem[ids[lo + i - 1]], SiteChildren(ids[lo + i - 1]))]

RECURSIVE Resolve(_, _)
Resolve(rem, m) ==
    IF m.status = "fetch_page"
    THEN Resolve(rem, FetchedPage(m, Page(m.want, rem[m.want], SiteChildren(m.want))))
    ELSE IF m.status = "fetch_listing"
    THEN Resolve(rem, FetchedListing(m, SiteResponse(rem, Top(m))))
    ELSE m

(***************************************************************************)
(* main().  The command line: a page id, or a space key; --html.           *)
(***************************************************************************)
Args == [mode : {"page_id"}, page_id : Ids, space : {"none"}, html : BOOLEAN]
        \cup [mode : {"space"}, page_id : {"none"}, space : Spaces, html : BOOLEAN]

NoArgs == [mode |-> "none", page_id |-> "none", space |-> "none", html |-> FALSE]
NoCall == [id |-> "none", processed |-> FALSE, stats |-> ZeroStats,
           html |-> "not_called", pdf |-> "not_called", content_type |-> "none"]

\* stats of main(), and its update after one call of process_page
ZeroRunStats == [processed |-> 0, skipped |-> 0, failed |-> 0,
                 html_processed |-> 0, html_skipped |-> 0, html_failed |-> 0,
                 pdf_processed |-> 0, pdf_skipped |-> 0, pdf_failed |-> 0,
                 total_pages_from_api |-> 0]

add_page_stats(run_stats, processed, page_stats) ==
    [run_stats EXCEPT
        !.html_processed = @ + page_stats.html_processed,
        !.html_skipped = @ + page_stats.html_skipped,
        !.html_failed = @ + page_stats.html_failed,
        !.pdf_processed = @ + page_stats.pdf_processed,
        !.pdf_skipped = @ + page_stats.pdf_skipped,
        !.pdf_failed = @ + page_stats.pdf_failed,
        !.processed = IF processed THEN @ + 1 ELSE @,
        !.skipped = IF processed THEN @ ELSE @ + 1]
NoCommits == [id \in Ids |-> 0]

InitLedger ==
    /\ remote = [id \in Ids |-> 1]
    /\ state = EmptyLedger
    /\ store = MissingFile
    /\ pc = "idle"
    /\ args = NoArgs
    /\ pages = <<>>
    /\ force_process = FALSE
    /\ last = NoCall
    /\ exit_code = 0
    /\ runs = 0
    /\ exported = {}
    /\ committed = NoCommits
    /\ run_ok = TRUE
    /\ repeat = FALSE
    /\ prev_ok = FALSE
    /\ changed = {}
    /\ stats = ZeroRunStats

(***************************************************************************)
(* A remote edit increments the version of a page (between two runs).      *)
(***************************************************************************)
RECURSIVE SumOver(_, _)
SumOver(f, S) ==
    IF S = {} THEN 0
    ELSE LET x == CHOOSE y \in S : TRUE IN f[x] + SumOver(f, S \ {x})

RemoteEdit ==
    /\ pc = "idle"
    /\ SumOver(remote, Ids) < Cardinality(Ids) + MaxEdits
    /\ \E id \in Ids :
          /\ remote' = [remote EXCEPT ![id] = @ + 1]
          /\ changed' = changed \cup {id}
    /\ UNCHANGED <<state, store, pc, args, pages, force_process, last, exit_code,
                   runs, exported, committed, run_ok, repeat, prev_ok, stats>>
    /\ UNCHANGED resolver_vars
    /\ UNCHANGED gateway_vars
    /\ UNCHANGED modes_vars

(***************************************************************************)
(* main() from its start to the first page loop: StateManager() loads the  *)
(* ledger, the resolver is called, and the space mode decides on its       *)
(* first-time path from a second load_state().  gw = "raises": a gateway   *)
(* call of the resolver raised, which main's handler turns into return 1.  *)
(***************************************************************************)
space_pages_in_state(current_state, pgs, space_key) ==
    \E i \in 1..Len(pgs) :
        /\ pgs[i].id \in DOMAIN current_state
        /\ current_state[pgs[i].id].space_key = space_key

Main_Start ==
    /\ pc = "idle"
    /\ runs < MaxRuns
    /\ \E a \in Args, rd1 \in {"ok", "error"}, rd2 \in {"ok", "error"},
          gw \in {"ok", "raises"} :
          LET recursive == TRUE
              m == IF a.mode = "page_id"
                   THEN Resolve(remote, get_child_pages(a.page_id, recursive))
                   ELSE Resolve(remote, get_pages_in_space(a.space, recursive))
              current_state == load_state(store, rd2)
          IN  /\ args' = a
              /\ repeat' = (prev_ok /\ a = args)
              /\ state' = load_state(store, rd1)
              /\ IF gw = "raises"
                 THEN /\ pc' = "returned"
                      /\ exit_code' = 1
                      /\ pages' = <<>>
                      /\ force_process' = FALSE
                      /\ stats' = ZeroRunStats
                 ELSE /\ pc' = "run"
                      /\ exit_code' = exit_code
                      /\ pages' = m.result
                      /\ stats' = IF a.mode = "page_id" /\ m.result = <<>>
                                  THEN [ZeroRunStats EXCEPT !.failed = 1]
                                  ELSE [ZeroRunStats EXCEPT
                                           !.total_pages_from_api = Len(m.result)]
                      /\ force_process' =
                            /\ a.mode = "space"
                            /\ ~space_pages_in_state(current_state, m.result, a.space)
                            /\ m.result /= <<>>
    /\ runs' = runs + 1
    /\ prev_ok' = FALSE
    /\ UNCHANGED <<remote, store, last, exported, committed, run_ok, changed>>
    /\ UNCHANGED resolver_vars
    /\ UNCHANGED gateway_vars
    /\ UNCHANGED modes_vars

(***************************************************************************)
(* One round of a page loop of main(): process_page on the next candidate. *)
(* CallOutcomes lists each course of a call once: a step that the call     *)
(* does not reach (the PDF step after a failed HTML step, the save after   *)
(* a raise) has no outcome of its own, written "ok".                       *)
(***************************************************************************)
CallOutcomes ==
    {oc \in Outcomes :
        /\ oc.html /= "path" => (oc.pdf = "ok" /\ oc.save = "ok")
        /\ oc.pdf = "raise" => oc.save = "ok"}

Main_ProcessPage ==
    /\ pc = "run"
    /\ pages /= <<>>
    /\ \E oc \in CallOutcomes :
          LET page == Head(pages)
              force_space == IF args.mode = "space" THEN args.space ELSE "none"
              r == process_page(state, store, page, args.html, force_space,
                                force_process, oc)
          IN  /\ state' = r.state
              /\ store' = r.store
              /\ last' = [id |-> page.id, processed |-> r.processed,
                          stats |-> r.stats, html |-> r.html, pdf |-> r.pdf,
                          content_type |-> r.content_type]
              /\ stats' = add_page_stats(stats, r.processed, r.stats)
              /\ exported' = IF r.html = "not_called" THEN exported
                             ELSE exported \cup {page.id}
              /\ run_ok' = (run_ok /\ r.html \in {"not_called", "path"})
              /\ committed' = IF r.processed
                              THEN [committed EXCEPT ![page.id] = page.version]
                              ELSE committed
    /\ pages' = Tail(pages)
    /\ UNCHANGED <<remote, pc, args, force_process, exit_code, runs, repeat, prev_ok,
                   changed>>
    /\ UNCHANGED resolver_vars
    /\ UNCHANGED gateway_vars
    /\ UNCHANGED modes_vars

(***************************************************************************)
(* main() after its last page: the summary is logged, return 0.            *)
(***************************************************************************)
Main_Return ==
    /\ pc = "run"
    /\ pages = <<>>
    /\ pc' = "returned"
    /\ exit_code' = 0
    /\ prev_ok' = run_ok
    /\ UNCHANGED <<remote, state, store, args, pages, force_process, last, runs,
                   exported, committed, run_ok, repeat, changed, stats>>
    /\ UNCHANGED resolver_vars
    /\ UNCHANGED gateway_vars
    /\ UNCHANGED modes_vars

(***************************************************************************)
(* The process dies during a run:                                          *)
(*   - between two pages or during an export: the file is as it was;       *)
(*   - inside save_state, after open(..., "w") truncated the file and      *)
(*     before json.dump completed: the file holds a partial document.      *)
(* In pc = "crashed", state still shows the ledger as it was committed     *)
(* before the page in flight.                                              *)
(***************************************************************************)
Crash ==
    /\ pc = "run"
    /\ pc' = "crashed"
    /\ \/ store' = store
       \/ /\ pages /= <<>>
          /\ \/ force_process
             \/ should_process_page(state, Head(pages),
                    IF args.mode = "space" THEN args.space ELSE "none")
          /\ store' = CorruptFile
    /\ UNCHANGED <<remote, state, args, pages, force_process, last, exit_code,
                   runs, exported, committed, run_ok, repeat, prev_ok, changed, stats>>
    /\ UNCHANGED resolver_vars
    /\ UNCHANGED gateway_vars
    /\ UNCHANGED modes_vars

(***************************************************************************)
(* The process is gone: only the state file, the remote site and the exit  *)
(* status outlive it.                                                      *)
(***************************************************************************)
ProcessExit ==
    /\ pc \in {"returned", "crashed"}
    /\ pc' = "idle"
    /\ state' = EmptyLedger
    /\ pages' = <<>>
    /\ force_process' = FALSE
    /\ last' = NoCall
    /\ exported' = {}
    /\ committed' = NoCommits
    /\ run_ok' = TRUE
    /\ repeat' = FALSE
    /\ changed' = {}
    /\ stats' = ZeroRunStats
    /\ exit_code' = 0
    /\ UNCHANGED <<remote, store, args, runs, prev_ok>>
    /\ UNCHANGED resolver_vars
    /\ UNCHANGED gateway_vars
    /\ UNCHANGED modes_vars

(***************************************************************************)
(* main() in each of its four modes, one run.  mn holds the locals of      *)
(* main and of the StateManager:                                           *)
(*   mn.pc       "idle", "pages" (in a page loop), "spaces" (default mode, *)
(*               between two spaces of the missing-pages pass), "returned" *)
(*   mn.phase    "single" (the loop of modes 1-3), "updated" (default      *)
(*               mode, updated pages), "missing" (default mode, one space) *)
(*   mn.when     page["version"]["when"] of each remote page against the   *)
(*               requested window: "recent", "old" or "empty"              *)
(*   mn.passed   ids handed to process_page; mn.exported: ids for which    *)
(*               generate_html was called                                  *)
(*   mn.root_failed, mn.raised, mn.failed_spaces, mn.listed_spaces         *)
(*               what happened in the run: the requested page was not      *)
(*               found, the handler of main ran, the spaces whose listing  *)
(*               raised / was received in the missing-pages pass           *)
(* The remote site is the one of Resolve, with A and C at version 2 and B  *)
(* at version 1; the state file is whatever JSON mapping load_state finds: *)
(* entries at version 1 or 2 (behind, level with or ahead of the site),    *)
(* under the space key the page had when the entry was written.            *)
(***************************************************************************)
Whens == {"recent", "old", "empty"}
Titles == {"A", "C", "missing"}

ModeArgs ==
    [mode : {"page_id"}, page_id : Ids, title : {"none"}, space : {"none"},
     no_days : BOOLEAN, no_check_missing : {FALSE}]
    \cup [mode : {"title"}, page_id : {"none"}, title : Titles, space : Spaces,
          no_days : BOOLEAN, no_check_missing : {FALSE}]
    \cup [mode : {"space"}, page_id : {"none"}, title : {"none"}, space : Spaces,
          no_days : BOOLEAN, no_check_missing : {FALSE}]
    \cup [mode : {"default"}, page_id : {"none"}, title : {"none"}, space : {"none"},
          no_days : BOOLEAN, no_check_missing : BOOLEAN]

NoModeArgs == [mode |-> "none", page_id |-> "none", title |-> "none",
               space |-> "none", no_days |-> FALSE, no_check_missing |-> FALSE]

ModesRemote == [id \in Ids |-> IF id = "B" THEN 1 ELSE 2]
AllRecent == [id \in Ids |-> "recent"]

\* last_modified and last_modified >= date_n_days_ago
in_window(last_modified) == last_modified = "recent"

filter_by_window(pgs, when) ==
    LET keep(page) == in_window(when[page.id]) IN SelectSeq(pgs, keep)

(***************************************************************************)
(* The gateway of this site.  A listing is served PageLimit items at a     *)
(* time; a search returns the pages whose last modification is in the      *)
(* window.  ResolveSite runs a resolver call with every request answered,  *)
(* ResolveDown with every request raising.                                 *)
(***************************************************************************)
Window(seq, start) ==
    SubSeq(seq, start + 1,
           IF start + PageLimit < Len(seq) THEN start + PageLimit ELSE Len(seq))

SitePages(rem, ids) ==
    [i \in 1..Len(ids) |-> Page(ids[i], rem[ids[i]], SiteChildren(ids[i]))]

SiteListing(rem, when, f) ==
    LET recent(id) == when[id] = "recent" IN
    CASE f.fn = "get_all_spaces" -> Window(<<"DOCS", "OPS">>, f.start)
      [] f.fn = "get_pages_in_space" -> SiteResponse(rem, f)
      [] f.fn = "get_updated_pages" /\ f.phase = "global" ->
            SitePages(rem, Window(SelectSeq(<<"A", "B", "C">>, recent), f.start))
      [] OTHER ->
            SitePages(rem, Window(SelectSeq(SiteSpacePages(f.spaces[f.idx]), recent),
                                  f.start))

RECURSIVE ResolveSite(_, _, _)
ResolveSite(rem, when, m) ==
    IF m.status = "fetch_page"
    THEN ResolveSite(rem, when,
             FetchedPage(m, Page(m.want, rem[m.want], SiteChildren(m.want))))
    ELSE IF m.status = "fetch_listing"
    THEN ResolveSite(rem, when, FetchedListing(m, SiteListing(rem, when, Top(m))))
    ELSE m

RECURSIVE ResolveDown(_)
ResolveDown(m) ==
    IF m.status \in {"fetch_page", "fetch_listing"}
    THEN ResolveDown(FetchFailed(m))
    ELSE m

\* a resolver call of main: answered, or made while the gateway is down
Resolved(when, gw, m) ==
    IF gw = "ok" THEN ResolveSite(ModesRemote, when, m) ELSE ResolveDown(m)

(***************************************************************************)
(* get_page_by_title: response["results"][0], None when the list is empty, *)
(* an exception when _make_request raised.                                 *)
(***************************************************************************)
get_page_by_title(space_key, title, gw) ==
    IF gw /= "ok" THEN [status |-> "raised", page |-> NoPage]
    ELSE IF title \in Ids /\ SpaceOf(title) = space_key
    THEN [status |-> "returned",
          page |-> Page(title, ModesRemote[title], SiteChildren(title))]
    ELSE [status |-> "returned", page |-> NoPage]

IdleMain(when, file) ==
    [pc |-> "idle", args |-> NoModeArgs, when |-> when,
     state |-> EmptyLedger, store |-> file, stats |-> ZeroRunStats,
     pages |-> <<>>, phase |-> "none", force_process |-> FALSE,
     spaces |-> <<>>, processed_page_ids |-> {}, current_state |-> EmptyLedger,
     exit_code |-> 0, passed |-> {}, exported |-> {},
     root_failed |-> FALSE, raised |-> FALSE,
     failed_spaces |-> {}, listed_spaces |-> {}]

\* except Exception as e: ... return 1
main_handler(m) ==
    [m EXCEPT !.pc = "returned", !.exit_code = 1, !.raised = TRUE, !.pages = <<>>]

page_loop(m, pgs, phase, force) ==
    [m EXCEPT !.pc = "pages", !.pages = pgs, !.phase = phase, !.force_process = force]

\* the pages a resolver call returned: counted, then filtered by the window
found_pages(m, pgs) ==
    page_loop([m EXCEPT !.stats.total_pages_from_api = @ + Len(pgs)],
              IF m.args.no_days THEN filter_by_window(pgs, m.when) ELSE pgs,
              "single", FALSE)

\* stats["failed"] += 1: the requested page was not found
root_not_found(m) ==
    page_loop([m EXCEPT !.stats.failed = @ + 1, !.root_failed = TRUE],
              <<>>, "single", FALSE)

\* Case 1: --page_id
main_page_id(m, gw) ==
    LET r == Resolved(m.when, gw, get_child_pages(m.args.page_id, TRUE)) IN
    IF r.status = "raised" THEN main_handler(m)
    ELSE IF r.result = <<>> THEN root_not_found(m)
    ELSE found_pages(m, r.result)

\* Case 2: --page_title with --space
main_title(m, gw1, gw2) ==
    LET t == get_page_by_title(m.args.space, m.args.title, gw1)
        r == Resolved(m.when, gw2, get_child_pages(t.page.id, TRUE))
    IN  IF t.status = "raised" THEN main_handler(m)
        ELSE IF t.page = NoPage THEN root_not_found(m)
        ELSE IF r.status = "raised" THEN main_handler(m)
        ELSE IF r.result = <<>>
        THEN \* at least process the parent page
             IF m.args.no_days /\ ~in_window(m.when[t.page.id])
             THEN page_loop([m EXCEPT !.stats.skipped = @ + 1,
                                      !.stats.html_skipped = @ + 1,
                                      !.stats.pdf_skipped = @ + 1],
                            <<>>, "single", FALSE)
             ELSE page_loop(m, <<t.page>>, "single", FALSE)
        ELSE found_pages(m, r.result)

\* Case 3: --space
main_space(m, gw, rd) ==
    LET r == Resolved(m.when, gw, get_pages_in_space(m.args.space, TRUE))
        m1 == found_pages(m, r.result)
        current_state == load_state(m.store, rd)
    IN  IF r.status = "raised" THEN main_handler(m)
        ELSE [m1 EXCEPT
                 !.current_state = current_state,
                 !.force_process =
                     /\ ~space_pages_in_state(current_state, m1.pages, m.args.space)
                     /\ m1.pages /= <<>>]

\* Case 4, first half: the pages get_updated_pages returns
main_default(m, gw) ==
    LET r == Resolved(m.when, gw, get_updated_pages(1))
        m1 == [m EXCEPT !.stats.total_pages_from_api = @ + Len(r.result),
                        !.processed_page_ids = Range(PageIds(r.result))]
    IN  page_loop(m1, r.result, "updated", FALSE)

\* one round of a page loop
main_process_page(m, oc) ==
    LET page == Head(m.pages)
        force_space == IF m.args.mode = "space" THEN m.args.space ELSE "none"
        r == process_page(m.state, m.store, page, FALSE, force_space,
                          m.force_process, oc)
    IN  [m EXCEPT
            !.state = r.state,
            !.store = r.store,
            !.stats = add_page_stats(@, r.processed, r.stats),
            !.pages = Tail(@),
            !.passed = @ \cup {page.id},
            !.exported = IF r.html = "not_called" THEN @ ELSE @ \cup {page.id},
            !.pc = IF Tail(m.pages) = <<>> /\ m.phase = "missing"
                   THEN "spaces" ELSE "pages"]

\* Case 4, second half: spaces = client.get_all_spaces(), current_state
main_check_missing(m, gw, rd) ==
    LET r == Resolved(m.when, gw, get_all_spaces) IN
    IF r.status = "raised" THEN main_handler(m)
    ELSE [m EXCEPT !.pc = "spaces", !.spaces = r.result,
                   !.current_state = load_state(m.store, rd)]

\* the variant that takes every listed page for a page not seen yet
seen_nothing(page, processed_page_ids) == TRUE

\* page["id"] not in processed_page_ids
not_yet_processed(page, processed_page_ids) == page.id \notin processed_page_ids

\* for space in spaces: the listing of the space and the choice of its loop
main_next_space(m, gw) ==
    LET space_key == Head(m.spaces)
        r == Resolved(m.when, gw, get_pages_in_space(space_key, TRUE))
        space_pages == r.result
        is_new(page) == not_yet_processed(page, m.processed_page_ids)
        is_missing(page) == /\ not_yet_processed(page, m.processed_page_ids)
                            /\ page.id \notin DOMAIN m.current_state
        first_time == ~space_pages_in_state(m.current_state, space_pages, space_key)
        new_pages == SelectSeq(space_pages, is_new)
        todo == IF first_time THEN new_pages ELSE SelectSeq(space_pages, is_missing)
    IN  IF r.status = "raised"
        THEN [main_handler(m) EXCEPT !.failed_spaces = @ \cup {space_key}]
        ELSE IF space_pages = <<>>
        THEN [m EXCEPT !.spaces = Tail(@), !.listed_spaces = @ \cup {space_key}]
        ELSE [m EXCEPT
                 !.spaces = Tail(@),
                 !.listed_spaces = @ \cup {space_key},
                 !.stats.total_pages_from_api = @ + Len(space_pages),
                 !.processed_page_ids =
                       @ \cup Range(PageIds(IF first_time THEN new_pages
                                            ELSE space_pages)),
                 !.pages = todo,
                 !.phase = "missing",
                 !.force_process = first_time,
                 !.pc = IF todo = <<>> THEN "spaces" ELSE "pages"]

(***************************************************************************)
(* The file an earlier run left: no file, or a mapping.                    *)
(***************************************************************************)
LedgerEntries == [space_key : Spaces, version : {1, 2},
                  output_paths : {{"html", "pdf"}}]
Ledgers == UNION {[S -> LedgerEntries] : S \in SUBSET Ids}

InitMain == mn = IdleMain(AllRecent, MissingFile)

InitModes ==
    \E when \in [Ids -> Whens], ledger \in Ledgers :
        /\ when = AllRecent \/ ledger = EmptyLedger
        /\ mn = IdleMain(when, IF ledger = EmptyLedger THEN MissingFile
                               ELSE JsonFile(ledger))

Modes_Start ==
    /\ mn.pc = "idle"
    /\ \E a \in ModeArgs, rd1 \in {"ok", "error"}, rd2 \in {"ok", "error"},
          gw1 \in {"ok", "raises"}, gw2 \in {"ok", "raises"} :
          LET m == [mn EXCEPT !.args = a, !.state = load_state(mn.store, rd1)]
          IN  mn' = CASE a.mode = "page_id" -> main_page_id(m, gw1)
                      [] a.mode = "title" -> main_title(m, gw1, gw2)
                      [] a.mode = "space" -> main_space(m, gw1, rd2)
                      [] OTHER -> main_default(m, gw1)
    /\ UNCHANGED ledger_vars
    /\ UNCHANGED resolver_vars
    /\ UNCHANGED gateway_vars

Modes_ProcessPage ==
    /\ mn.pc = "pages"
    /\ mn.pages /= <<>>
    /\ \E oc \in CallOutcomes : mn' = main_process_page(mn, oc)
    /\ UNCHANGED ledger_vars
    /\ UNCHANGED resolver_vars
    /\ UNCHANGED gateway_vars

Modes_CheckMissing ==
    /\ mn.pc = "pages"
    /\ mn.pages = <<>>
    /\ mn.phase = "updated"
    /\ ~mn.args.no_check_missing
    /\ \E gw \in {"ok", "raises"}, rd \in {"ok", "error"} :
          mn' = main_check_missing(mn, gw, rd)
    /\ UNCHANGED ledger_vars
    /\ UNCHANGED resolver_vars
    /\ UNCHANGED gateway_vars

Modes_NextSpace ==
    /\ mn.pc = "spaces"
    /\ mn.spaces /= <<>>
    /\ \E gw \in {"ok", "raises"} : mn' = main_next_space(mn, gw)
    /\ UNCHANGED ledger_vars
    /\ UNCHANGED resolver_vars
    /\ UNCHANGED gateway_vars

Modes_Return ==
    /\ \/ /\ mn.pc = "pages"
          /\ mn.pages = <<>>
          /\ mn.phase = "single" \/ (mn.phase = "updated" /\ mn.args.no_check_missing)
       \/ /\ mn.pc = "spaces"
          /\ mn.spaces = <<>>
    /\ mn' = [mn EXCEPT !.pc = "returned", !.exit_code = 0]
    /\ UNCHANGED ledger_vars
    /\ UNCHANGED resolver_vars
    /\ UNCHANGED gateway_vars

NextModes ==
    \/ Modes_Start
    \/ Modes_ProcessPage
    \/ Modes_CheckMissing
    \/ Modes_NextSpace
    \/ Modes_Return

Next ==
    \/ RemoteEdit
    \/ Main_Start
    \/ Main_ProcessPage
    \/ Main_Return
    \/ Crash
    \/ ProcessExit

Init == InitLedger /\ InitResolver /\ InitGateway /\ InitMain

Spec == Init /\ [][Next]_vars

SpecResolver == Init /\ [][NextResolver]_vars

SpecGateway == Init /\ [][NextGateway]_vars

InitAnyMode == InitLedger /\ InitResolver /\ InitGateway /\ InitModes

SpecModes == InitAnyMode /\ [][NextModes]_vars

(***************************************************************************)
(* Properties of the ledger and the orchestrator, checked under Spec.      *)
(***************************************************************************)
Versions == 0..(MaxEdits + 2)
ForceSpaces == Spaces \cup {"none"}

\* the ledger a fresh process reads from the state file, no read error
Persisted == load_state(store, "ok")
StoredVersion(file, id) ==
    LET l == load_state(file, "ok") IN IF id \in DOMAIN l THEN l[id].version ELSE 0

\* the step is one call of process_page on Head(pages)
ProcessPageStep == pc = "run" /\ pc' = "run" /\ pages /= <<>> /\ pages' = Tail(pages)

\* C1: a run that follows a run which returned with every HTML export
\* succeeding (same arguments, no remote edit in between) exports nothing:
\* every call of process_page skips, generate_html is not called, no commit.
C1_Idempotence ==
    (pc \in {"run", "returned"} /\ repeat /\ changed = {}) =>
        /\ exported = {}
        /\ committed = NoCommits
        /\ last.id /= "none" => last.html = "not_called"

\* C2: for every ledger the program reaches, every page and every
\* force_space, should_process_page is False iff the page id is in the
\* ledger with a stored version >= the page's version.
C2_ShouldProcessIff ==
    \A id \in Ids, v \in Versions, fs \in ForceSpaces :
        should_process_page(state, Page(id, v, <<>>), fs)
            = ~(id \in DOMAIN state /\ state[id].version >= v)

\* a call of process_page has skipped a page the ledger holds
C2_Witness ==
    /\ pc = "run"
    /\ last.id \in DOMAIN state
    /\ last.html = "not_called"
    /\ ~last.processed

\* C3: a call of process_page in which generate_html returned None or raised
\* leaves the in-memory ledger and the state file as they were and reports
\* (False, html_failed = 1); a call that changes either of them is one in
\* which generate_html returned a path, and it changes the entry of that
\* page only.
C3_CommitOnlyAfterHtml ==
    [][ProcessPageStep =>
          /\ last'.id = Head(pages).id
          /\ last'.html \in {"none", "raise"} =>
                /\ state' = state
                /\ store' = store
                /\ ~last'.processed
                /\ last'.stats.html_failed = 1
          /\ (state' /= state \/ store' /= store) =>
                /\ last'.html = "path"
                /\ \A id \in DOMAIN state :
                      id /= last'.id => id \in DOMAIN state' /\ state'[id] = state[id]
       ]_vars

\* generate_html failed for a page while the ledger already held another one
C3_Witness ==
    /\ pc = "run"
    /\ last.html \in {"none", "raise"}
    /\ last.id \notin DOMAIN state
    /\ DOMAIN state /= {}
    /\ store = JsonFile(state)

\* C4: when process_page has committed (update_page_state has returned), the
\* state file holds the in-memory ledger.
C4_WriteThrough ==
    (pc = "run" /\ last.processed) => store = JsonFile(state)

\* C5: after a crash, load_state returns every entry committed before the
\* page in flight.
C5_CrashSafety ==
    pc = "crashed" =>
        \A id \in DOMAIN state :
            id \in DOMAIN Persisted /\ Persisted[id] = state[id]

\* C6: the version the state file holds for a page never decreases, and when
\* a run has returned it is the version of the last successful export of
\* every page the run exported.
C6_MonotonicVersioning ==
    [][/\ \A id \in Ids : StoredVersion(store', id) >= StoredVersion(store, id)
       /\ (pc' = "returned" /\ exit_code' = 0) =>
             \A id \in Ids :
                committed'[id] > 0 => StoredVersion(store', id) = committed'[id]
      ]_vars

(***************************************************************************)
(* Properties of the resolver, checked under SpecResolver.                 *)
(***************************************************************************)
Returned == rs.status = "returned"
AllFetchesSucceeded == failures = {}
ResultIds == Range(PageIds(rs.result))

\* C7: the list a resolver entry point returns holds each page id once.
C7_Deduplication ==
    Returned => NoDuplicates(PageIds(rs.result))

\* C8: on any page graph, cyclic ones included, get_child_pages and
\* get_pages_in_space end after finitely many fetches when every fetch
\* succeeds: no page is fetched by id more than twice, a listing is asked
\* for at most once per PageLimit items and once more, and the call has
\* returned or its next fetch is due.
C8_CycleTolerance ==
    (call.fn \in {"get_child_pages", "get_pages_in_space"} /\ AllFetchesSucceeded) =>
        /\ \A id \in Ids : fetches[id] <= 2
        /\ listings <= (MaxListing \div PageLimit) + 1
        /\ \/ Returned
           \/ ENABLED GatewayPage
           \/ ENABLED GatewayListing

\* a recursive get_child_pages has returned on a graph in which a child of
\* the root links back to the root and a page links to itself
C8_Witness ==
    /\ Returned
    /\ AllFetchesSucceeded
    /\ call.fn = "get_child_pages"
    /\ call.recursive
    /\ \E c \in Range(site[call.arg]) :
          c /= call.arg /\ c \in DOMAIN site /\ call.arg \in Range(site[c])
    /\ \E id \in DOMAIN site : id \in Range(site[id])

\* C9: every fetch succeeding, get_child_pages(root, recursive=True) returns
\* the root and every page reachable from it by child links.
C9_FullSubtree ==
    (Returned /\ AllFetchesSucceeded
        /\ call.fn = "get_child_pages" /\ call.recursive) =>
        /\ call.arg \in ResultIds
        /\ \A id \in ResultIds : Range(site[id]) \subseteq ResultIds

\* C10: an exception leaves get_child_pages only when the fetch of the root
\* failed, and get_pages_in_space only when a listing request failed; the
\* failed fetch of a child never does.
C10_ChildFailureContained ==
    rs.status = "raised" =>
        \/ call.fn = "get_child_pages" /\ call.arg \in failures
        \/ call.fn = "get_pages_in_space" /\ "listing" \in failures

\* C11: when the fetch of the root page fails, get_child_pages returns the
\* empty list and does not raise.
C11_RootFailureEmpty ==
    (call.fn = "get_child_pages" /\ call.arg \in failures) =>
        /\ Returned
        /\ rs.result = <<>>

(***************************************************************************)
(* The request log of a resolver call.                                     *)
(***************************************************************************)
RECURSIVE Items(_)
Items(lg) == IF lg = <<>> THEN <<>> ELSE Head(lg).items \o Items(Tail(lg))

RECURSIVE KeepFirst(_, _)
KeepFirst(ids, seen) ==
    IF ids = <<>> THEN <<>>
    ELSE IF Head(ids) \in seen THEN KeepFirst(Tail(ids), seen)
    ELSE <<Head(ids)>> \o KeepFirst(Tail(ids), seen \cup {Head(ids)})

IsGlobalQuery(r) == r.fn = "get_updated_pages" /\ r.space = "none"
IsSpaceQuery(r) == r.fn = "get_updated_pages" /\ r.space /= "none"
IsSpacesListing(r) == r.fn = "get_all_spaces"
GlobalQueries == SelectSeq(log, IsGlobalQuery)
SpaceQueries == SelectSeq(log, IsSpaceQuery)
SpacesListings == SelectSeq(log, IsSpacesListing)
GlobalFailed == \E i \in 1..Len(log) : IsGlobalQuery(log[i]) /\ ~log[i].ok
\* the loop of the global query is over
GlobalDone ==
    /\ GlobalQueries /= <<>>
    /\ \/ rs.status \in {"returned", "raised"}
       \/ Top(rs).fn /= "get_updated_pages"
       \/ Top(rs).phase /= "global"
FallbackEntered ==
    \/ SpacesListings /= <<>>
    \/ rs.status = "fetch_listing" /\ Top(rs).fn = "get_all_spaces"
SameLoop(r1, r2) == r1.fn = r2.fn /\ r1.space = r2.space

\* C26: get_updated_pages enters the per-space fallback (get_all_spaces, then
\* one search per space) exactly when its global query has failed or has
\* ended without a page; when the global query ends with at least one page
\* and no failure, the call returns those pages and no request of the
\* fallback is issued.
C26_FallbackIff ==
    call.fn = "get_updated_pages" =>
        /\ (SpacesListings /= <<>> \/ SpaceQueries /= <<>>) =>
              (GlobalDone /\ (GlobalFailed \/ Items(GlobalQueries) = <<>>))
        /\ (GlobalDone /\ (GlobalFailed \/ Items(GlobalQueries) = <<>>)) =>
              FallbackEntered
        /\ (GlobalDone /\ ~GlobalFailed /\ Items(GlobalQueries) /= <<>>) =>
              /\ Returned
              /\ PageIds(rs.result) = Items(GlobalQueries)
              /\ SpacesListings = <<>>
              /\ SpaceQueries = <<>>
        /\ SpaceQueries /= <<>> =>
              \A i \in 1..Len(SpaceQueries) :
                  SpaceQueries[i].space \in Range(Items(SpacesListings))

\* the global query failed on its second request and a space was then
\* searched on its own
C26_Witness ==
    /\ Returned
    /\ call.fn = "get_updated_pages"
    /\ Len(GlobalQueries) = 2
    /\ ~GlobalQueries[2].ok
    /\ SpaceQueries /= <<>>
    /\ rs.result /= <<>>

\* C27: with recursive=False get_child_pages returns the root followed by
\* its declared children (the root itself left out) and fetches each of
\* them once; get_pages_in_space returns the listing with each id kept
\* once and never calls get_page_by_id.
C27_NoExpansion ==
    /\ (call.fn = "get_child_pages" /\ ~call.recursive /\ Returned) =>
          LET root == call.arg
              not_root(id) == id /= root
          IN  /\ PageIds(rs.result) = <<root>> \o SelectSeq(site[root], not_root)
              /\ \A id \in Ids : fetches[id] = IF id \in ResultIds THEN 1 ELSE 0
    /\ (call.fn = "get_pages_in_space" /\ ~call.recursive) =>
          /\ fetches = NoFetches
          /\ Returned => PageIds(rs.result) = KeepFirst(Items(log), {})

\* a non-recursive get_child_pages returned while a child of the root has a
\* child outside the result
C27_Witness ==
    /\ Returned
    /\ call.fn = "get_child_pages"
    /\ ~call.recursive
    /\ \E c \in Range(site[call.arg]) :
          c /= call.arg /\ c \in DOMAIN site /\ Range(site[c]) \ ResultIds /= {}

\* a non-recursive get_pages_in_space returned a listing whose pages have
\* children outside the listing
C27_WitnessListing ==
    /\ Returned
    /\ call.fn = "get_pages_in_space"
    /\ ~call.recursive
    /\ rs.result /= <<>>
    /\ \E id \in ResultIds : Range(site[id]) \ ResultIds /= {}

\* C28: every fetch succeeding, get_pages_in_space(space, recursive=True)
\* returns every page of the listing and every page reachable by child links
\* from a page of the listing.
C28_SpaceSubtree ==
    (Returned /\ AllFetchesSucceeded
        /\ call.fn = "get_pages_in_space" /\ call.recursive) =>
        /\ Range(Items(log)) \subseteq ResultIds
        /\ \A id \in ResultIds : Range(site[id]) \subseteq ResultIds

\* C29 as stated: the result is the concatenation of the items of every
\* response received, none dropped.
C29_NothingDropped ==
    Returned =>
        /\ call.fn = "get_pages_in_space" /\ ~call.recursive =>
              PageIds(rs.result) = Items(log)
        /\ call.fn = "get_updated_pages" =>
              PageIds(rs.result) = Items(GlobalQueries) \o Items(SpaceQueries)

\* C29: every pagination loop asks for start = 0 first and, after a response
\* of PageLimit items, for start + PageLimit next; a response with fewer
\* items (or none) ends the loop; and, no request failing, the call returns
\* the items received in arrival order: for get_pages_in_space with each
\* id kept once (first occurrence), for get_updated_pages and
\* get_all_spaces all of them.
C29_Pagination ==
    /\ \A i \in 1..Len(log) :
          (i = 1 \/ ~SameLoop(log[i - 1], log[i])) => log[i].start = 0
    /\ \A i \in 1..(Len(log) - 1) :
          SameLoop(log[i], log[i + 1]) =>
              /\ log[i].ok
              /\ Len(log[i].items) = PageLimit
              /\ log[i + 1].start = log[i].start + PageLimit
    /\ (log /= <<>> /\ log[Len(log)].ok /\ Len(log[Len(log)].items) = PageLimit) =>
          /\ rs.status = "fetch_listing"
          /\ SameLoop(Request(Top(rs), <<>>, TRUE), log[Len(log)])
          /\ Top(rs).start = log[Len(log)].start + PageLimit
    /\ (Returned /\ AllFetchesSucceeded) =>
          /\ call.fn = "get_pages_in_space" =>
                /\ Len(rs.result) >= Len(KeepFirst(Items(log), {}))
                /\ SubSeq(PageIds(rs.result), 1, Len(KeepFirst(Items(log), {})))
                       = KeepFirst(Items(log), {})
          /\ call.fn = "get_updated_pages" =>
                PageIds(rs.result) = Items(GlobalQueries) \o Items(SpaceQueries)
    /\ (rs.status = "fetch_listing" /\ Top(rs).fn = "get_updated_pages"
            /\ Top(rs).phase = "per_space") =>
          Top(rs).spaces = Items(SpacesListings)

\* a space listing came in two responses, the second one shorter and
\* repeating a page of the first
C29_Witness ==
    /\ Returned
    /\ AllFetchesSucceeded
    /\ call.fn = "get_pages_in_space"
    /\ Len(log) = 2
    /\ log[2].start = PageLimit
    /\ log[2].items /= <<>>
    /\ Range(log[2].items) \subseteq Range(log[1].items)

\* C30: in one call of get_child_pages or get_pages_in_space no page is
\* fetched by id more than once.
C30_NoRefetch ==
    call.fn \in {"get_child_pages", "get_pages_in_space"} =>
        \A id \in Ids : fetches[id] <= 1

(***************************************************************************)
(* Properties of the gateway, checked under SpecGateway.                   *)
(***************************************************************************)
Plain(r, codes) == r.exc = "none" /\ ~r.challenge /\ r.code \in codes
Transient(r) == r.exc \in {"ConnectionError", "Timeout"} \/ Plain(r, {500})
Attempts == Len(rq.history)
Challenges == {i \in 1..Attempts : rq.history[i].challenge}

\* C12: a call that has met nothing but 429 responses has not failed, however
\* many they are, and a 200 response after k >= 1 responses 429 makes the
\* call return the payload of that response.
C12_RateLimitRetry ==
    /\ (\A i \in 1..Attempts : Plain(rq.history[i], {429})) => rq.status /= "raised"
    /\ (/\ Attempts >= 2
        /\ \A i \in 1..(Attempts - 1) : Plain(rq.history[i], {429})
        /\ Plain(rq.history[Attempts], {200})) =>
           rq.status = "returned" /\ rq.result = rq.history[Attempts].payload

\* C13: while every attempt so far failed with a 5xx status or a
\* connection/timeout error the call goes on, one retry per failure, up to
\* max_retries retries; the failure of attempt max_retries + 1 leaves the
\* call as its error; a 200 response after such failures is returned.
C13_TransientRetryBound ==
    (Attempts >= 1 /\ \A i \in 1..(Attempts - 1) : Transient(rq.history[i])) =>
        /\ Transient(rq.history[Attempts]) =>
              IF Attempts = max_retries + 1
              THEN rq.status = "raised" /\ rq.error = rq.history[Attempts]
              ELSE /\ Attempts <= max_retries
                   /\ rq.status = "attempt"
                   /\ rq.retry_count = Attempts
        /\ Plain(rq.history[Attempts], {200}) =>
              /\ Attempts <= max_retries + 1
              /\ rq.status = "returned"
              /\ rq.result = rq.history[Attempts].payload

\* every attempt of a call failed with a transient fault, of both kinds, and
\* the call has given up
C13_Witness ==
    /\ rq.status = "raised"
    /\ Attempts = max_retries + 1
    /\ \A i \in 1..Attempts : Transient(rq.history[i])
    /\ \E i, j \in 1..Attempts :
          rq.history[i].exc = "Timeout" /\ Plain(rq.history[j], {500})

\* C14: a call whose first response is a 401 or a 403 has refreshed the
\* session and retries the request.
C14_AuthRefreshRetry ==
    (Attempts = 1 /\ Plain(rq.history[1], {401, 403})) =>
        /\ rq.refreshes = 1
        /\ rq.status = "attempt"

\* C15: a 400, 404 or 405 response is the last attempt of its call, and the
\* call raises it, whatever retry_count is.
C15_ClientFaultsNotRetried ==
    \A i \in 1..Attempts :
        Plain(rq.history[i], {400, 404, 405}) =>
            /\ i = Attempts
            /\ rq.status = "raised"
            /\ rq.error = rq.history[i]

\* a 404 has ended a call that had retried before
C15_Witness ==
    /\ rq.status = "raised"
    /\ rq.retry_count >= 1
    /\ Plain(rq.history[Attempts], {404})

\* C16: a call meets at most two challenged responses, the first and the one
\* retry; the second one ends the call with an error.
C16_ChallengeRetriedOnce ==
    /\ Cardinality(Challenges) <= 2
    /\ Cardinality(Challenges) = 2 => rq.status = "raised"

(***************************************************************************)
(* Properties of the export step, of load_state and of whole runs.         *)
(***************************************************************************)

\* C17: a call of process_page in which generate_html returned a path and
\* convert_file returned None reports (True, pdf_failed = 1) and leaves the
\* page in the in-memory ledger at the version of the page it was given,
\* with an HTML output path and no PDF output path.
C17_PdfBestEffort ==
    [][(ProcessPageStep /\ last'.html = "path" /\ last'.pdf = "fail") =>
          /\ last'.processed
          /\ last'.stats.pdf_failed = 1
          /\ last'.stats.html_processed = 1
          /\ last'.id \in DOMAIN state'
          /\ state'[last'.id].version = Head(pages).version
          /\ state'[last'.id].output_paths = {"html"}
       ]_vars

\* the PDF conversion of a page failed after its HTML was written
C17_Witness ==
    /\ pc = "run"
    /\ last.html = "path"
    /\ last.pdf = "fail"
    /\ last.processed
    /\ last.id \in DOMAIN state
    /\ state[last.id].output_paths = {"html"}

\* C18: load_state yields the persisted mapping when the file holds valid
\* JSON and can be read, and the empty mapping when the file is missing,
\* unreadable or not valid JSON; the ledger a run starts with is one of the
\* two.
C18_LoadNeverFatal ==
    /\ \A rd \in {"ok", "error"} :
          load_state(store, rd) = IF store.kind = "json" /\ rd = "ok"
                                  THEN store.data
                                  ELSE EmptyLedger
    /\ (pc = "run" /\ last = NoCall) =>
          \/ state = EmptyLedger
          \/ store.kind = "json" /\ state = store.data

\* a run started on a file that a crash had left invalid
C18_Witness ==
    /\ pc = "run"
    /\ last = NoCall
    /\ store = CorruptFile
    /\ state = EmptyLedger
    /\ runs = 2

\* the file held a non-empty mapping when the next run was about to load it
C18_WitnessLoaded ==
    /\ pc = "run"
    /\ last = NoCall
    /\ store.kind = "json"
    /\ state = store.data
    /\ state /= EmptyLedger

\* C19: in a run that follows a run with the same arguments which returned
\* with every HTML export succeeding, when exactly one page was edited
\* remotely in between, only that page is exported and only its entry is
\* committed.
C19_SingleUpdate ==
    (pc \in {"run", "returned"} /\ repeat /\ Cardinality(changed) = 1) =>
        /\ exported \subseteq changed
        /\ \A id \in Ids \ changed : committed[id] = 0

\* C20: a space-mode run that starts with no state file, returns 0 and
\* reports no failed export has exported every page of the space exactly
\* once, and the in-memory ledger then holds exactly those pages, each at
\* its remote version.
C20_FirstSync ==
    (/\ pc = "returned"
     /\ exit_code = 0
     /\ runs = 1
     /\ args.mode = "space"
     /\ stats.html_failed = 0) =>
        LET ids == Range(SiteSpacePages(args.space))
            n == Len(SiteSpacePages(args.space))
        IN  /\ stats.total_pages_from_api = n
            /\ stats.html_processed = n
            /\ stats.processed = n
            /\ stats.skipped = 0
            /\ exported = ids
            /\ \A id \in Ids : committed[id] = IF id \in ids THEN remote[id] ELSE 0
            /\ DOMAIN state = ids
            /\ \A id \in ids : state[id].version = remote[id]

\* the first run over a space of two pages has returned
C20_Witness ==
    /\ pc = "returned"
    /\ exit_code = 0
    /\ runs = 1
    /\ args.mode = "space"
    /\ stats.html_failed = 0
    /\ stats.html_processed = 2
    /\ Cardinality(DOMAIN state) = 2

C21_ExitStatus ==
    mn.pc = "returned" =>
        ((mn.exit_code /= 0) <=> (mn.root_failed \/ mn.raised))

\* C22: in the missing-pages pass of the default mode, the failure of the
\* listing of a space does not end the run: main does not return 1, and by
\* the time it returns every space has been asked for.
C22_SpaceFailureContained ==
    (mn.args.mode = "default" /\ mn.failed_spaces /= {}) =>
        /\ ~mn.raised
        /\ mn.exit_code = 0
        /\ mn.pc = "returned" => (mn.listed_spaces \cup mn.failed_spaces = Spaces)

\* the round of a page loop as the path with checks runs it: in the
\* missing-pages pass a page the loaded state holds is not handed to
\* process_page, and process_page is called with force_process=False
main_process_page_checked(m, oc) ==
    IF m.phase = "missing" /\ Head(m.pages).id \in DOMAIN m.current_state
    THEN [m EXCEPT !.pages = Tail(@)]
    ELSE main_process_page([m EXCEPT !.force_process = FALSE], oc)

\* C24: in a loop main runs with force_process=True, while no page still to
\* come has a ledger entry under the key of its space, each round leaves the
\* ledger, the state file and the set of exported pages as the round of
\* the path with checks would, the collaborators behaving the same.
C24_FirstSyncShortCircuit ==
    [][\A oc \in CallOutcomes :
          (/\ mn.pc = "pages"
           /\ mn.pages /= <<>>
           /\ mn.force_process
           /\ \A i \in 1..Len(mn.pages) :
                 mn.pages[i].id \in DOMAIN mn.state =>
                     mn.state[mn.pages[i].id].space_key /= mn.pages[i].space
           /\ mn' = main_process_page(mn, oc)) =>
              LET checked == main_process_page_checked(mn, oc)
              IN  /\ mn'.state = checked.state
                  /\ mn'.store = checked.store
                  /\ mn'.exported = checked.exported
       ]_vars

\* C25: when --no_days is given, every page handed to process_page has a
\* last-modified stamp inside the window, whatever the mode.
C25_WindowUniform ==
    mn.args.no_days => \A id \in mn.passed : in_window(mn.when[id])

(***************************************************************************)
(* Further properties of the gateway, the ledger and the default mode.     *)
(***************************************************************************)

\* C31: a call of _make_request makes a bounded number of HTTP attempts, the
\* first one, max_retries retries and one more after a challenge, and ends
\* either with the payload of a response or with an exception, never both.
C31_CallTerminates ==
    /\ Len(rq.history) <= max_retries + 2
    /\ rq.status = "returned" => (rq.result \in Payloads /\ rq.error = NoResponse)
    /\ rq.status = "raised" => (rq.result = "none" /\ rq.error /= NoResponse)

\* C32: no step of a run lowers the version the in-memory ledger holds for
\* a page id: after a call of process_page, and so of update_page_state, the
\* stored version is at least the one stored before.
C32_VersionNeverLowered ==
    [][\A id \in DOMAIN mn.state \cap DOMAIN mn'.state :
          mn'.state[id].version >= mn.state[id].version]_vars

\* C33: in the default mode, the pages a round of the missing-pages pass is
\* about to hand to process_page are distinct and none of them was handed
\* to process_page before in the run, by the pass over the updated pages or
\* by an earlier space.
C33_CrossPassDedup ==
    (mn.args.mode = "default" /\ mn.phase = "missing") =>
        /\ NoDuplicates(PageIds(mn.pages))
        /\ \A i \in 1..Len(mn.pages) : mn.pages[i].id \notin mn.passed

\* a default run over both spaces has returned: the search returned two
\* pages, the listings returned those two and a third, five pages in all,
\* and process_page was called three times, once for each page
C33_Witness ==
    /\ mn.pc = "returned"
    /\ mn.args.mode = "default"
    /\ mn.listed_spaces = Spaces
    /\ mn.stats.total_pages_from_api = 5
    /\ mn.stats.processed + mn.stats.skipped = 3
    /\ mn.passed = Ids

\* C34: after a call of process_page that returned True the in-memory ledger
\* is the one update_page_state makes for that page, its entry holding the
\* page's version; after a call that returned False the in-memory ledger is
\* the one of before the call.
C34_ResultMatchesLedger ==
    [][(mn.pc = "pages" /\ mn.pages /= <<>> /\ mn'.pages = Tail(mn.pages)) =>
          LET page == Head(mn.pages)
              processed == mn'.stats.processed = mn.stats.processed + 1
          IN  IF processed
              THEN /\ \E output_paths \in {{"html"}, {"html", "pdf"}} :
                        mn'.state = update_page_state(mn.state, mn.store, page,
                                                      output_paths, "ok").state
                   /\ mn'.state[page.id].version = page.version
              ELSE /\ mn'.stats.skipped = mn.stats.skipped + 1
                   /\ mn'.state = mn.state
       ]_vars

\* one run has seen process_page return True for a page, return False after
\* a failed export, and return False for a page it skipped
C34_Witness ==
    /\ mn.pc = "pages"
    /\ mn.stats.processed >= 1
    /\ mn.stats.html_failed >= 1
    /\ mn.stats.html_skipped >= 1

\* C35: a response with status 200 and a JSON payload of the API ends the
\* call: it is the last response of the call, and the call returns its
\* payload, whatever the text of the payload.
C35_SuccessNotChallenge ==
    \A i \in 1..Attempts :
        (rq.history[i].code = 200 /\ rq.history[i].payload \in Payloads) =>
            /\ i = Attempts
            /\ rq.status = "returned"
            /\ rq.result = rq.history[i].payload

\* C36: the statistics of every call of process_page are a partition:
\* exactly one of the three HTML counters is 1, exactly one of the three PDF
\* counters is 1, and the others are 0.
C36_StatsPartition ==
    last.id /= "none" =>
        /\ \A k \in DOMAIN last.stats : last.stats[k] \in {0, 1}
        /\ last.stats.html_processed + last.stats.html_skipped
               + last.stats.html_failed = 1
        /\ last.stats.pdf_processed + last.stats.pdf_skipped
               + last.stats.pdf_failed = 1

\* the requests that open the search of a space
SpaceLoops == SelectSeq(SpaceQueries, LAMBDA r : r.start = 0)

\* C37: get_updated_pages never ends with an exception; a failed search of a
\* space is the last request of that space's pagination, the next request
\* opening the search of the next space; and, the list of spaces having
\* been received, the call returns after one search loop for every space of
\* the list.
C37_UpdatedNeverRaises ==
    call.fn = "get_updated_pages" =>
        /\ rs.status /= "raised"
        /\ \A i \in 1..(Len(log) - 1) :
              (IsSpaceQuery(log[i]) /\ ~log[i].ok) =>
                  (IsSpaceQuery(log[i + 1]) /\ log[i + 1].start = 0)
        /\ (Returned /\ SpacesListings /= <<>>
                /\ \A i \in 1..Len(SpacesListings) : SpacesListings[i].ok) =>
              PageIds([i \in 1..Len(SpaceLoops) |-> [id |-> SpaceLoops[i].space]])
                  = Items(SpacesListings)

\* the search of the first space failed and the search of a later space
\* delivered the pages the call returned
C37_Witness ==
    /\ Returned
    /\ call.fn = "get_updated_pages"
    /\ Len(SpaceLoops) >= 2
    /\ ~SpaceLoops[1].ok
    /\ rs.result /= <<>>

\* C38: the list get_updated_pages returns is either the items of the
\* global query, no space having been searched, or the items of the searches
\* of the spaces and nothing else; and when the fallback starts, after a
\* failure of the global query or not, the list holds no item.
C38_NoMixing ==
    call.fn = "get_updated_pages" =>
        /\ Returned =>
              \/ /\ PageIds(rs.result) = Items(GlobalQueries)
                 /\ SpaceQueries = <<>>
                 /\ ~GlobalFailed
              \/ PageIds(rs.result) = Items(SpaceQueries)
        /\ (rs.status = "fetch_listing" /\ Top(rs).fn = "get_all_spaces") =>
              Top(Pop(rs)).updated_pages = <<>>

\* the global query delivered a full response and failed on the next one;
\* the call returned pages found by the search of a space
C38_Witness ==
    /\ Returned
    /\ call.fn = "get_updated_pages"
    /\ Len(GlobalQueries) = 2
    /\ Len(GlobalQueries[1].items) = PageLimit
    /\ ~GlobalQueries[2].ok
    /\ rs.result /= <<>>
    /\ PageIds(rs.result) /= Items(GlobalQueries)

\* C39: a page the missing-pages pass exports and records has no entry in
\* the ledger when it is handed to process_page (the pass hands a page over
\* once, so the entry is the one the ledger held when the pass started):
\* the pass adds entries and overwrites none.
C39_MissingPassOnlyAdds ==
    [][(/\ mn.pc = "pages"
        /\ mn.phase = "missing"
        /\ mn.pages /= <<>>
        /\ mn'.pages = Tail(mn.pages)
        /\ mn'.stats.processed = mn.stats.processed + 1) =>
           Head(mn.pages).id \notin DOMAIN mn.state]_vars

====
